---- MODULE Spec2Model ----
(***************************************************************************)
(* Round state machine of the animal guessing game                         *)
(* (src/guess-animal-gradio.py): the four event handlers start_round,      *)
(* give_hint, submit_guess and give_up, the helpers they call, and the     *)
(* widgets they write to.                                                  *)
(*                                                                         *)
(* Strings are sequences of one-character strings, so that str.lower() and *)
(* str.strip() are computed and not assumed.  A fixed sentence of the      *)
(* source (a message, a default of row.get) is a one-element sequence that *)
(* holds the sentence as a single token.                                   *)
(***************************************************************************)
EXTENDS Integers, Sequences, FiniteSets, TLC

VARIABLES
    DECKS,      \* category -> rows of the sheet, loaded once at startup
    state,      \* gr.State: the session dict
    chat,       \* gr.Chatbot value: the list of messages
    options,    \* gr.Radio: choices and visibility
    score_md,   \* gr.Markdown: the score display
    image,      \* gr.HTML: the answer image and its visibility
    hint_btn,   \* visibility of the Hint button
    giveup_btn, \* visibility of the Give up button
    submit_btn  \* visibility of the Submit Guess button

vars == <<DECKS, state, chat, options, score_md, image, hint_btn, giveup_btn, submit_btn>>

-----------------------------------------------------------------------------
(* Bounds *)

\* Longest chat a round may grow to; a handler that would exceed it is not taken.
MaxChat == 6
\* A new round is started only while score + 3 <= MaxScore.
MaxScore == 4
\* Largest number of rows of a sheet drawn for the options specification.
MaxRows == 5

-----------------------------------------------------------------------------
(* Configuration: lines 22-41 *)

SHEETS == {"Dogs", "Cats", "Horses", "Dinosaurs"}

IMAGE_FIELD == "Example Image"

ANSWER_FIELD == [category \in SHEETS |->
                    IF category = "Dinosaurs" THEN "Common Name" ELSE "Breed"]

MAX_CLUES == 3

-----------------------------------------------------------------------------
(* Values and strings *)

\* Python None and pandas NaN; neither is a string of the alphabet below.
None == <<"None">>
NaN == <<"NaN">>

\* str.lower() on one character.
LowerChar(ch) ==
    CASE ch = "A" -> "a"
      [] ch = "B" -> "b"
      [] ch = "C" -> "c"
      [] ch = "D" -> "d"
      [] OTHER -> ch

\* str.lower()
Lower(s) == [i \in 1..Len(s) |-> LowerChar(s[i])]

RECURSIVE LStrip(_)
LStrip(s) == IF s # <<>> /\ Head(s) = " " THEN LStrip(Tail(s)) ELSE s

RECURSIVE RStrip(_)
RStrip(s) == IF s # <<>> /\ s[Len(s)] = " " THEN RStrip(SubSeq(s, 1, Len(s) - 1)) ELSE s

\* str.strip()
Strip(s) == RStrip(LStrip(s))

\* pd.isna(x), and the "x is None" test
IsNa(x) == x = None \/ x = NaN

\* safe_str: "" for None/NaN, otherwise str(x).strip()
safe_str(x) == IF IsNa(x) THEN <<>> ELSE Strip(x)

\* Truthy that tests for None only.
Truthy_none_only(x) == x # None

\* Python truthiness of an optional string: None and "" are falsy.
Truthy(x) == x # None /\ x # <<>>

\* dict.get(key, default)
Get(d, key, default) == IF key \in DOMAIN d THEN d[key] ELSE default

\* as_msg
as_msg(role, content) == [role |-> role, content |-> content]

Min(a, b) == IF a <= b THEN a ELSE b
Max(a, b) == IF a >= b THEN a ELSE b

-----------------------------------------------------------------------------
(* Helper utilities: lines 74-135 *)

ICON(cat) ==
    CASE cat = "Dogs" -> "dog"
      [] cat = "Cats" -> "cat"
      [] cat = "Horses" -> "horse"
      [] cat = "Dinosaurs" -> "t-rex"
      [] OTHER -> "compass"

\* build_score_text: the HUD line, as the values it interpolates.
build_score_text(st) ==
    [format |-> "hud",
     icon |-> ICON(Get(st, "category", "-")),
     category |-> Get(st, "category", "-"),
     score |-> Get(st, "score", 0),
     streak |-> Get(st, "streak", 0)]

\* get_example_image: the stripped URL, or None when it is empty.
get_example_image(row) ==
    LET url == safe_str(Get(row, IMAGE_FIELD, <<>>))
    IN IF url # <<>> THEN url ELSE None

\* generate_image_html
generate_image_html(img_url) ==
    IF ~Truthy(img_url)
    THEN [html |-> "No image available"]
    ELSE [html |-> "img", src |-> img_url]

\* pick_round_row: the rows df.dropna(subset=[answer_col]).sample(1) can return.
pick_round_row(category) ==
    LET df == DECKS[category]
        answer_col == ANSWER_FIELD[category]
    IN {df[i] : i \in {j \in 1..Len(df) : ~IsNa(df[j][answer_col])}}

\* The subsets of S with k elements.
KSubsets(S, k) == {P \in SUBSET S : Cardinality(P) = k}

\* The elements of s at the positions P, in increasing order of position.
RECURSIVE AtPositions(_, _)
AtPositions(s, P) ==
    IF P = {} THEN <<>>
    ELSE LET i == CHOOSE x \in P : \A y \in P : x <= y
         IN <<s[i]>> \o AtPositions(s, P \ {i})

\* random.sample(population, k) followed by random.shuffle, as make_options
\* uses them: k elements at distinct positions; the order of the sample is
\* immaterial because the list is shuffled as a whole afterwards.
random_sample(population, k) ==
    {AtPositions(population, P) : P \in KSubsets(1..Len(population), k)}

\* random.shuffle: every rearrangement of the list.
random_shuffle(s) ==
    {[i \in 1..Len(s) |-> s[p[i]]] : p \in Permutations(1..Len(s))}

\* Candidates with a case-sensitive comparison against the correct answer.
Candidates_case_sensitive(category, correct_answer) ==
    LET df == DECKS[category]
        answer_col == ANSWER_FIELD[category]
        notna == SelectSeq([i \in 1..Len(df) |-> df[i][answer_col]], LAMBDA x : ~IsNa(x))
        strs == [i \in 1..Len(notna) |-> safe_str(notna[i])]
    IN SelectSeq(strs, LAMBDA c : c # <<>> /\ c # correct_answer)

\* The candidate list of make_options (lines 129-130): the stripped non-NaN
\* answers, in row order, without the empty ones and without those that
\* match the correct answer ignoring case.
Candidates(category, correct_answer) ==
    LET df == DECKS[category]
        answer_col == ANSWER_FIELD[category]
        notna == SelectSeq([i \in 1..Len(df) |-> df[i][answer_col]], LAMBDA x : ~IsNa(x))
        strs == [i \in 1..Len(notna) |-> safe_str(notna[i])]
    IN SelectSeq(strs, LAMBDA c : c # <<>> /\ Lower(c) # Lower(correct_answer))

\* make_options: the option lists a call can return.
make_options(category, correct_answer, n_options) ==
    LET candidates == Candidates(category, correct_answer)
        k == Min(n_options - 1, Len(candidates))
    IN UNION {random_shuffle(<<correct_answer>> \o distractors) :
                 distractors \in random_sample(candidates, k)}

-----------------------------------------------------------------------------
(* Composite clue builder: lines 141-243 *)

\* The fields of each clue and the default row.get falls back to when the
\* row has no such column.
ClueFields(category, clue_number) ==
    CASE category = "Dogs" /\ clue_number = 1 ->
            << <<"Country", <<"unknown">> >>, <<"Continent", <<"unknown">> >>,
               <<"Creation Time", <<"unknown time">> >>, <<"Use", <<"various purposes">> >> >>
      [] category = "Dogs" /\ clue_number = 2 -> << <<"Color", <<"various colors">> >> >>
      [] category = "Dogs" /\ clue_number = 3 -> << <<"Personality Traits", <<"varied traits">> >> >>
      [] category = "Cats" /\ clue_number = 1 ->
            << <<"Country", <<"unknown">> >>, <<"Continent", <<"unknown">> >>,
               <<"History", <<"unknown history">> >> >>
      [] category = "Cats" /\ clue_number = 2 -> << <<"Color", <<"various colors">> >> >>
      [] category = "Cats" /\ clue_number = 3 -> << <<"Personality", <<"varied traits">> >> >>
      [] category = "Horses" /\ clue_number = 1 ->
            << <<"Country", <<"unknown">> >>, <<"Continent", <<"unknown">> >>,
               <<"Creation", <<"unknown time">> >>, <<"Uses", <<"various uses">> >> >>
      [] category = "Horses" /\ clue_number = 2 ->
            << <<"Color", <<"various colors">> >>, <<"Weight", <<"unknown weight">> >>,
               <<"Height", <<"unknown height">> >> >>
      [] category = "Horses" /\ clue_number = 3 ->
            << <<"Distinguishing Features", <<"varied features">> >> >>
      [] category = "Dinosaurs" /\ clue_number = 1 ->
            << <<"Locations Found", <<"unknown locations">> >>,
               <<"Eating Habits", <<"unknown diet">> >> >>
      [] category = "Dinosaurs" /\ clue_number = 2 ->
            << <<"Rough Size", <<"unknown size">> >>, <<"Clade", <<"unknown clade">> >> >>
      [] category = "Dinosaurs" /\ clue_number = 3 ->
            << <<"Social Behavior", <<"unknown behavior">> >> >>
      [] OTHER -> <<>>

\* build_composite_clue that labels the clue with the counter of the state.
build_composite_clue_mislabels(st, clue_number) ==
    LET category == st["category"]
        row == st["row"]
        fields == ClueFields(category, clue_number)
    IN IF fields = <<>>
       THEN [text |-> "Clue information unavailable"]
       ELSE [text |-> "Clue",
             number |-> Get(st, "clue_index", 0),
             category |-> category,
             values |-> [i \in 1..Len(fields) |->
                            safe_str(Get(row, fields[i][1], fields[i][2]))]]

\* build_composite_clue: the clue sentence, as its label, its category and
\* the strings substituted into it; the sentinel when no branch matches.
build_composite_clue(st, clue_number) ==
    LET category == st["category"]
        row == st["row"]
        fields == ClueFields(category, clue_number)
    IN IF fields = <<>>
       THEN [text |-> "Clue information unavailable"]
       ELSE [text |-> "Clue",
             number |-> clue_number,
             category |-> category,
             values |-> [i \in 1..Len(fields) |->
                            safe_str(Get(row, fields[i][1], fields[i][2]))]]

\* next_clue_text with the cap tested one clue too late.
next_clue_text_late_cap(st) ==
    LET i == Get(st, "clue_index", 0)
    IN IF i > MAX_CLUES
       THEN [text |-> [text |-> "No more clues available"], state |-> st]
       ELSE [text |-> build_composite_clue(st, i + 1),
             state |-> [st EXCEPT !["clue_index"] = i + 1]]

\* next_clue_text that restarts the counter instead of stopping at the cap.
next_clue_text_wraps(st) ==
    LET i == Get(st, "clue_index", 0)
    IN IF i >= MAX_CLUES
       THEN [text |-> [text |-> "No more clues available"],
             state |-> [st EXCEPT !["clue_index"] = 0]]
       ELSE [text |-> build_composite_clue(st, i + 1),
             state |-> [st EXCEPT !["clue_index"] = i + 1]]

\* next_clue_text that does not store the advanced counter.
next_clue_text_no_advance(st) ==
    LET i == Get(st, "clue_index", 0)
    IN IF i >= MAX_CLUES
       THEN [text |-> [text |-> "No more clues available"], state |-> st]
       ELSE [text |-> build_composite_clue(st, i + 1), state |-> st]

\* next_clue_text: the text it returns and the state it leaves.
next_clue_text(st) ==
    LET i == Get(st, "clue_index", 0)
    IN IF i >= MAX_CLUES
       THEN [text |-> [text |-> "No more clues available"], state |-> st]
       ELSE [text |-> build_composite_clue(st, i + 1),
             state |-> [st EXCEPT !["clue_index"] = i + 1]]

\* points_for_clues_used with the boundary of the first tier moved.
points_for_clues_used_wide(clues_used) ==
    IF clues_used <= 2 THEN 3
    ELSE 1

\* points_for_clues_used
points_for_clues_used(clues_used) ==
    IF clues_used <= 1 THEN 3
    ELSE IF clues_used = 2 THEN 2
    ELSE 1

\* is_game_active without the test of round_over.
is_game_active_ignoring_over(st) ==
    /\ DOMAIN st # {}
    /\ "category" \in DOMAIN st

\* is_game_active; the empty dict is falsy.
is_game_active(st) ==
    /\ DOMAIN st # {}
    /\ "category" \in DOMAIN st
    /\ ~Get(st, "round_over", FALSE)

-----------------------------------------------------------------------------
(* Sheets *)

\* The answer cells a sheet may hold: a missing cell, a blank cell, names
\* that differ only in case, and further names.
Cells == <<NaN, <<" ">>, <<"A">>, <<"a">>, <<"B">>, <<"C">>, <<"D">>>>

\* The sheets of n rows, as non-decreasing sequences of indices into Cells:
\* sampling is by position and uniform, so the order of the rows of a sheet
\* makes no difference to what a round can draw.
RECURSIVE SortedIndexSeqs(_)
SortedIndexSeqs(n) ==
    IF n = 0 THEN {<<>>}
    ELSE {Append(x[1], x[2]) :
            x \in {y \in SortedIndexSeqs(n - 1) \X (1..Len(Cells)) :
                      y[1] = <<>> \/ y[1][Len(y[1])] <= y[2]}}

\* A sheet of category whose answer column holds the cells named by d.
SheetOf(category, d) == [i \in 1..Len(d) |-> (ANSWER_FIELD[category] :> Cells[d[i]])]

\* The datasets of the options specification: at most MaxRows rows per
\* sheet, the same answer column in each sheet.
AllDecks ==
    {[category \in SHEETS |-> SheetOf(category, d)] :
        d \in UNION {SortedIndexSeqs(n) : n \in 1..MaxRows}}

\* The dataset of the session specification.
SessionDecks ==
    [category \in SHEETS |->
        CASE category = "Dogs" ->
                << ("Breed" :> <<"A">>) @@ ("Color" :> <<"c">>) @@ (IMAGE_FIELD :> <<" ", "u">>),
                   ("Breed" :> <<"B", " ">>) @@ ("Color" :> NaN) @@ (IMAGE_FIELD :> NaN) >>
          [] category = "Cats" ->
                << ("Breed" :> <<"A">>) @@ ("Personality" :> <<"c">>),
                   ("Breed" :> <<"a">>) @@ ("Personality" :> <<" ">>) >>
          [] category = "Horses" ->
                << ("Breed" :> <<"A">>), ("Breed" :> <<"B">>),
                   ("Breed" :> <<"B">>), ("Breed" :> NaN) >>
          [] category = "Dinosaurs" ->
                << ("Common Name" :> <<" ">>), ("Common Name" :> <<"B">>) >>]

\* The values the Radio can hand to submit_guess: nothing selected, the
\* empty string, and names in either letter case.
Selections == {None, <<>>, <<"A">>, <<"a">>, <<"B">>}

-----------------------------------------------------------------------------
(* Initial state: the widgets as constructed at lines 464-509 *)

EmptyDict == [key \in {} |-> 0]

Widgets ==
    /\ state = EmptyDict
    /\ chat = [value |-> <<>>, visible |-> FALSE]
    /\ options = [choices |-> <<>>, visible |-> FALSE]
    /\ score_md = [format |-> "plain", category |-> "-", score |-> 0, streak |-> 0]
    /\ image = [value |-> [html |-> ""], visible |-> FALSE]
    /\ hint_btn = FALSE
    /\ giveup_btn = FALSE
    /\ submit_btn = FALSE

Init ==
    /\ DECKS = SessionDecks
    /\ Widgets

InitOptions ==
    /\ DECKS \in AllDecks
    /\ Widgets

-----------------------------------------------------------------------------
(* Event handlers: lines 308-458.  gr.update() leaves a widget as it is.   *)
(* The value of the Radio is the argument selected of submit_guess; it is  *)
(* drawn anew at each call, so the widget keeps no value here.             *)

\* won_state that sets the streak to 1 instead of adding 1 to it.
won_state_streak_one(st) ==
    LET clues_used == Max(1, Get(st, "clue_index", 0))
        pts == points_for_clues_used(clues_used)
    IN [st EXCEPT !["score"] = Get(st, "score", 0) + pts,
                  !["streak"] = 1,
                  !["round_over"] = TRUE]

\* won_state that does not add the points.
won_state_no_points(st) ==
    [st EXCEPT !["streak"] = Get(st, "streak", 0) + 1,
               !["round_over"] = TRUE]

\* The state a correct guess leaves (lines 394-399).
won_state(st) ==
    LET clues_used == Max(1, Get(st, "clue_index", 0))
        pts == points_for_clues_used(clues_used)
    IN [st EXCEPT !["score"] = Get(st, "score", 0) + pts,
                  !["streak"] = Get(st, "streak", 0) + 1,
                  !["round_over"] = TRUE]

\* lost_state without the reset of the streak.
lost_state_keeps_streak(st) == st

\* lost_state that also takes a point away.
lost_state_penalty(st) == [st EXCEPT !["streak"] = 0, !["score"] = Get(st, "score", 0) - 1]

\* lost_state that also empties the options of the round.
lost_state_clears_options(st) == [st EXCEPT !["streak"] = 0, !["options"] = <<>>]

\* The state a wrong guess leaves (line 423).
lost_state(st) == [st EXCEPT !["streak"] = 0]

\* given_up_state without the reset of the streak.
given_up_state_keeps_streak(st) == [st EXCEPT !["round_over"] = TRUE]

\* The state give_up leaves (lines 437-438).
given_up_state(st) == [st EXCEPT !["round_over"] = TRUE, !["streak"] = 0]

\* The message of the handlers that find no active round.
NotActiveMsg(st, first) ==
    IF DOMAIN st = {} \/ "category" \notin DOMAIN st
    THEN [text |-> first]
    ELSE [text |-> "That round is already over"]

\* start_round that starts every round with a streak of 0.
start_round_resets_streak(category) ==
    /\ Get(state, "score", 0) + 3 <= MaxScore
    /\ \E row \in pick_round_row(category) :
         LET prev_score == Get(state, "score", 0)
             correct == safe_str(Get(row, ANSWER_FIELD[category], <<>>))
             img_url == get_example_image(row)
         IN \E opts \in make_options(category, correct, 4) :
              LET fresh == [category |-> category,
                            row |-> row,
                            answer |-> correct,
                            options |-> opts,
                            clue_index |-> 0,
                            round_over |-> FALSE,
                            score |-> prev_score,
                            streak |-> 0,
                            img_url |-> img_url]
                  first == next_clue_text(fresh)
              IN /\ state' = first.state
                 /\ chat' = [value |-> <<as_msg("assistant",
                                           [text |-> "Here's your first clue", clue |-> first.text])>>,
                             visible |-> TRUE]
                 /\ options' = [choices |-> opts, visible |-> TRUE]
                 /\ score_md' = build_score_text(first.state)
                 /\ image' = [value |-> generate_image_html(img_url), visible |-> FALSE]
                 /\ hint_btn' = TRUE
                 /\ giveup_btn' = TRUE
                 /\ submit_btn' = TRUE
    /\ UNCHANGED DECKS

\* start_round (lines 308-361).  df.sample(1) raises on a sheet without a
\* usable row, and the handler then writes nothing.
start_round(category) ==
    /\ Get(state, "score", 0) + 3 <= MaxScore
    /\ \E row \in pick_round_row(category) :
         LET prev_score == Get(state, "score", 0)
             prev_streak == Get(state, "streak", 0)
             correct == safe_str(Get(row, ANSWER_FIELD[category], <<>>))
             img_url == get_example_image(row)
         IN \E opts \in make_options(category, correct, 4) :
              LET fresh == [category |-> category,
                            row |-> row,
                            answer |-> correct,
                            options |-> opts,
                            clue_index |-> 0,
                            round_over |-> FALSE,
                            score |-> prev_score,
                            streak |-> prev_streak,
                            img_url |-> img_url]
                  first == next_clue_text(fresh)
              IN /\ state' = first.state
                 /\ chat' = [value |-> <<as_msg("assistant",
                                           [text |-> "Here's your first clue", clue |-> first.text])>>,
                             visible |-> TRUE]
                 /\ options' = [choices |-> opts, visible |-> TRUE]
                 /\ score_md' = build_score_text(first.state)
                 /\ image' = [value |-> generate_image_html(img_url), visible |-> FALSE]
                 /\ hint_btn' = TRUE
                 /\ giveup_btn' = TRUE
                 /\ submit_btn' = TRUE
    /\ UNCHANGED DECKS

\* give_hint that charges the streak for the clue it reveals.
give_hint_resets_streak ==
    /\ Len(chat.value) + 1 <= MaxChat
    /\ IF ~is_game_active(state)
       THEN /\ chat' = [chat EXCEPT !.value =
                          Append(@, as_msg("assistant",
                                 NotActiveMsg(state, "Pick a category and click New Round first")))]
            /\ state' = state
       ELSE LET next == next_clue_text(state)
            IN /\ chat' = [chat EXCEPT !.value = Append(@, as_msg("assistant", next.text))]
               /\ state' = [next.state EXCEPT !["streak"] = 0]
    /\ UNCHANGED <<DECKS, options, score_md, image, hint_btn, giveup_btn, submit_btn>>

\* give_hint (lines 363-372)
give_hint ==
    /\ Len(chat.value) + 1 <= MaxChat
    /\ IF ~is_game_active(state)
       THEN /\ chat' = [chat EXCEPT !.value =
                          Append(@, as_msg("assistant",
                                 NotActiveMsg(state, "Pick a category and click New Round first")))]
            /\ state' = state
       ELSE LET next == next_clue_text(state)
            IN /\ chat' = [chat EXCEPT !.value = Append(@, as_msg("assistant", next.text))]
               /\ state' = next.state
    /\ UNCHANGED <<DECKS, options, score_md, image, hint_btn, giveup_btn, submit_btn>>

\* submit_guess (lines 374-425)
submit_guess(selected) ==
    /\ Len(chat.value) + (IF is_game_active(state) /\ Truthy(selected) THEN 2 ELSE 1) <= MaxChat
    /\ IF ~is_game_active(state)
       THEN /\ chat' = [chat EXCEPT !.value =
                          Append(@, as_msg("assistant",
                                 NotActiveMsg(state, "Pick a category and click New Round first")))]
            /\ state' = state
            /\ score_md' = build_score_text(state)
            /\ UNCHANGED <<image, hint_btn, giveup_btn, submit_btn>>
       ELSE IF ~Truthy(selected)
       THEN /\ chat' = [chat EXCEPT !.value =
                          Append(@, as_msg("assistant", [text |-> "Choose one of the options first"]))]
            /\ state' = state
            /\ score_md' = build_score_text(state)
            /\ UNCHANGED <<image, hint_btn, giveup_btn, submit_btn>>
       ELSE LET correct == state["answer"]
                guessed == Append(chat.value,
                                  as_msg("user", [text |-> "My guess", selected |-> selected]))
            IN IF Lower(safe_str(selected)) = Lower(safe_str(correct))
               THEN LET clues_used == Max(1, Get(state, "clue_index", 0))
                        pts == points_for_clues_used(clues_used)
                        won == won_state(state)
                    IN /\ state' = won
                       /\ chat' = [chat EXCEPT !.value =
                                     Append(guessed, as_msg("assistant",
                                            [text |-> "Correct", answer |-> correct,
                                             pts |-> pts, clues_used |-> clues_used]))]
                       /\ score_md' = build_score_text(won)
                       /\ image' = [image EXCEPT !.visible = TRUE]
                       /\ hint_btn' = FALSE
                       /\ giveup_btn' = FALSE
                       /\ UNCHANGED submit_btn
               ELSE LET lost == lost_state(state)
                    IN /\ state' = lost
                       /\ chat' = [chat EXCEPT !.value =
                                     Append(guessed, as_msg("assistant", [text |-> "Not quite"]))]
                       /\ score_md' = build_score_text(lost)
                       /\ UNCHANGED <<image, hint_btn, giveup_btn, submit_btn>>
    /\ UNCHANGED <<DECKS, options>>

\* give_up that does not reveal the image.
give_up_keeps_image_hidden ==
    /\ Len(chat.value) + 1 <= MaxChat
    /\ IF ~is_game_active(state)
       THEN /\ chat' = [chat EXCEPT !.value =
                          Append(@, as_msg("assistant",
                                 NotActiveMsg(state, "Pick a category and click Start / New Round first")))]
            /\ state' = state
            /\ score_md' = build_score_text(state)
            /\ UNCHANGED <<image, hint_btn, giveup_btn, submit_btn>>
       ELSE LET over == given_up_state(state)
            IN /\ state' = over
               /\ chat' = [chat EXCEPT !.value =
                             Append(@, as_msg("assistant",
                                    [text |-> "All good - the answer was", answer |-> over["answer"]]))]
               /\ score_md' = build_score_text(over)
               /\ hint_btn' = FALSE
               /\ giveup_btn' = FALSE
               /\ UNCHANGED <<image, submit_btn>>
    /\ UNCHANGED <<DECKS, options>>

\* give_up (lines 427-458)
give_up ==
    /\ Len(chat.value) + 1 <= MaxChat
    /\ IF ~is_game_active(state)
       THEN /\ chat' = [chat EXCEPT !.value =
                          Append(@, as_msg("assistant",
                                 NotActiveMsg(state, "Pick a category and click Start / New Round first")))]
            /\ state' = state
            /\ score_md' = build_score_text(state)
            /\ UNCHANGED <<image, hint_btn, giveup_btn, submit_btn>>
       ELSE LET over == given_up_state(state)
            IN /\ state' = over
               /\ chat' = [chat EXCEPT !.value =
                             Append(@, as_msg("assistant",
                                    [text |-> "All good - the answer was", answer |-> over["answer"]]))]
               /\ score_md' = build_score_text(over)
               /\ image' = [image EXCEPT !.visible = TRUE]
               /\ hint_btn' = FALSE
               /\ giveup_btn' = FALSE
               /\ UNCHANGED submit_btn
    /\ UNCHANGED <<DECKS, options>>

-----------------------------------------------------------------------------
(* Specifications *)

StartRound == \E category \in SHEETS : start_round(category)
GiveHint == give_hint
SubmitGuess == \E selected \in Selections : submit_guess(selected)
GiveUp == give_up

Next == StartRound \/ GiveHint \/ SubmitGuess \/ GiveUp

\* A session of the game on the session dataset.
Spec == Init /\ [][Next]_vars

\* The first round of a session.
FirstRound == DOMAIN state = {} /\ StartRound

NextOptions == FirstRound

\* The first round of a session on every dataset of AllDecks.
SpecOptions == InitOptions /\ [][NextOptions]_vars

TypeOK ==
    /\ DOMAIN state = {} \/ state["clue_index"] \in 0..MAX_CLUES
    /\ Len(chat.value) <= MaxChat

-----------------------------------------------------------------------------
(* The clue builder on its own *)

\* The categories handed to the clue builder: the four sheets and one that
\* is none of them.
ClueCategories == SHEETS \cup {"Birds"}

\* The clue numbers handed to the clue builder: 1..MAX_CLUES and one on
\* either side.
ClueNumbers == 0..(MAX_CLUES + 1)

\* The columns the clues of a category read.
ClueColumns(category) ==
    UNION {{ClueFields(category, n)[i][1] : i \in 1..Len(ClueFields(category, n))} :
              n \in 1..MAX_CLUES}

\* The values of a cell that is missing or blank.
BlankCells == {NaN, None, <<>>, <<" ">>}

\* The rows over the columns cols: every cell filled; one cell missing or
\* blank; one column absent.
RowsOver(cols) ==
    {[col \in cols |-> <<"c">>]}
    \cup {[col \in cols |-> IF col = blank THEN v ELSE <<"c">>] :
             blank \in cols, v \in BlankCells}
    \cup {[col \in cols \ {absent} |-> <<"c">>] : absent \in cols}

\* The rows handed to the clue builder for a category.
ClueRows(category) ==
    IF category \in SHEETS THEN RowsOver(ClueColumns(category))
    ELSE RowsOver(ClueColumns("Dogs"))

\* The states handed to the clue builder: a round of any of the categories
\* on any of its rows, with no clue or two clues revealed.
InitClue ==
    /\ DECKS = SessionDecks
    /\ \E category \in ClueCategories :
         \E row \in ClueRows(category), clue_index \in {0, 2} :
            state = [category |-> category,
                     row |-> row,
                     answer |-> <<"A">>,
                     options |-> << <<"A">> >>,
                     clue_index |-> clue_index,
                     round_over |-> FALSE,
                     score |-> 0,
                     streak |-> 0,
                     img_url |-> None]
    /\ chat = [value |-> <<>>, visible |-> TRUE]
    /\ options = [choices |-> << <<"A">> >>, visible |-> TRUE]
    /\ score_md = build_score_text(state)
    /\ image = [value |-> generate_image_html(None), visible |-> FALSE]
    /\ hint_btn = TRUE
    /\ giveup_btn = TRUE
    /\ submit_btn = TRUE

\* A call of build_composite_clue (lines 141-227): the text it returns is
\* shown as the only message; the function assigns to nothing.
build_clue(clue_number) ==
    /\ chat' = [chat EXCEPT !.value =
                  <<as_msg("assistant", build_composite_clue(state, clue_number))>>]
    /\ UNCHANGED <<DECKS, state, options, score_md, image, hint_btn, giveup_btn, submit_btn>>

BuildClue == \E clue_number \in ClueNumbers : build_clue(clue_number)

NextClue == BuildClue

\* The clue builder applied to every category, clue number and row above.
SpecClue == InitClue /\ [][NextClue]_vars

-----------------------------------------------------------------------------
(* Vocabulary of the properties *)

\* A round exists: start_round has run in this session.
HasRound == "category" \in DOMAIN state

\* The round is Active: it exists and is not over.
ActiveRound == HasRound /\ ~state["round_over"]

\* The round is Resolved: it exists and is over.
ResolvedRound == HasRound /\ state["round_over"]

\* Two strings are equal ignoring letter case.
SameIgnoringCase(a, b) == Lower(a) = Lower(b)

\* The last message of a chat.
LastMsg(c) == c.value[Len(c.value)]

\* The step appends exactly the message m to the chat.
AppendsOnly(m) == chat'.value = Append(chat.value, m)

\* The scoring table: clues used -> points.
ScoringTable(clue_index) ==
    IF clue_index = 1 THEN 3 ELSE IF clue_index = 2 THEN 2 ELSE 1

\* The fields of the round other than score, streak and the clue counter.
RoundFields == {"category", "row", "answer", "options"}

-----------------------------------------------------------------------------
(* C1 *)

\* C1: a submit_guess on an Active round whose selection equals the answer
\* ignoring letter case ends the round, adds 1 to streak and adds to score
\* 3, 2 or 1 points for clue_index 1, 2 or 3 and more, whatever wrong guesses
\* came before in the round.
C1_CorrectGuess ==
    [][\A selected \in Selections :
          (/\ ActiveRound
           /\ Truthy(selected)
           /\ state["clue_index"] >= 1
           /\ SameIgnoringCase(selected, state["answer"])
           /\ submit_guess(selected))
          => (/\ state'["round_over"]
              /\ state'["streak"] = state["streak"] + 1
              /\ state'["score"] = state["score"] + ScoringTable(state["clue_index"]))]_vars

\* A round won at clue_index 2 with a selection in another letter case than
\* the answer, after a wrong guess in the same round: 2 points.
C1_Witness ==
    /\ ResolvedRound
    /\ Len(chat.value) >= 4
    /\ LET n == Len(chat.value)
       IN /\ chat.value[n].content.text = "Correct"
          /\ chat.value[n].content.pts = 2
          /\ chat.value[n - 1].content.selected # state["answer"]
          /\ chat.value[n - 2].content.text = "Not quite"
    /\ state["clue_index"] = 2

-----------------------------------------------------------------------------
(* C2 *)

\* C2: a submit_guess on an Active round with a non-empty selection that
\* does not match the answer ignoring case leaves score as it is, sets
\* streak to 0 and leaves round_over false.
C2_WrongGuess ==
    [][\A selected \in Selections :
          (/\ ActiveRound
           /\ Truthy(selected)
           /\ ~SameIgnoringCase(selected, state["answer"])
           /\ submit_guess(selected))
          => (/\ state'["score"] = state["score"]
              /\ state'["streak"] = 0
              /\ ~state'["round_over"])]_vars

\* A wrong guess in a later round of a session that had a streak: the points
\* are kept, the streak is gone, the round goes on.
C2_Witness ==
    /\ ActiveRound
    /\ state["score"] > 0
    /\ state["streak"] = 0
    /\ Len(chat.value) = 3
    /\ LastMsg(chat).content.text = "Not quite"

-----------------------------------------------------------------------------
(* C3 *)

\* C3: give_up on an Active round, at any clue_index, sets round_over to
\* true and streak to 0, leaves score unchanged and returns a message that
\* reveals the answer.
C3_GiveUp ==
    [][(ActiveRound /\ give_up)
          => (/\ state'["round_over"]
              /\ state'["streak"] = 0
              /\ state'["score"] = state["score"]
              /\ Len(chat'.value) = Len(chat.value) + 1
              /\ LastMsg(chat').role = "assistant"
              /\ LastMsg(chat').content.text = "All good - the answer was"
              /\ LastMsg(chat').content.answer = state["answer"])]_vars

\* A round given up with all three clues shown, in a session with points.
C3_Witness ==
    /\ ResolvedRound
    /\ state["clue_index"] = 3
    /\ state["score"] > 0
    /\ state["streak"] = 0
    /\ LastMsg(chat).content.text = "All good - the answer was"

-----------------------------------------------------------------------------
(* C4 *)

\* C4: from a Resolved round every step is either a start_round or leaves
\* round_over true; give_hint, submit_guess and give_up then append one
\* guidance message to the chat and leave score, streak, clue_index,
\* round_over, answer and options unchanged.
C4_ResolvedIsFrozen ==
    [][ResolvedRound =>
          /\ (give_hint \/ SubmitGuess \/ give_up) =>
                /\ state'["score"] = state["score"]
                /\ state'["streak"] = state["streak"]
                /\ state'["clue_index"] = state["clue_index"]
                /\ state'["round_over"] = state["round_over"]
                /\ state'["answer"] = state["answer"]
                /\ state'["options"] = state["options"]
                /\ AppendsOnly(as_msg("assistant", [text |-> "That round is already over"]))
          /\ state'["round_over"] \/ StartRound]_vars

\* A Resolved round on which a further handler was called.
C4_Witness ==
    /\ ResolvedRound
    /\ state["score"] > 0
    /\ LastMsg(chat).content.text = "That round is already over"

-----------------------------------------------------------------------------
(* C5 *)

\* The message was produced by next_clue_text: a clue, alone or wrapped in
\* the first message of a round, or one of the two fixed sentences.
IsHintMsg(m) ==
    /\ m.role = "assistant"
    /\ m.content.text \in {"Here's your first clue", "Clue",
                           "No more clues available", "Clue information unavailable"}

\* The chat of the round starts with the first clue of start_round followed
\* by k give_hint calls in a row.
HintsInARow(k) ==
    /\ HasRound
    /\ Len(chat.value) >= 1 + k
    /\ chat.value[1].content.text = "Here's your first clue"
    /\ \A j \in 2..(1 + k) : IsHintMsg(chat.value[j])

\* The content is the text of clue number n.
IsClue(content, n) == content.text = "Clue" /\ content.number = n

\* C5 as stated: of four give_hint calls in a row on an Active round the
\* first three return clue text and the fourth the "no more clues" message,
\* and clue_index is 3 after the third and the fourth.
C5_Original ==
    \A k \in 1..4 :
        HintsInARow(k) =>
            /\ k <= 3 => chat.value[1 + k].content.text = "Clue"
            /\ k = 4 => chat.value[1 + k].content.text = "No more clues available"
            /\ (k >= 3 /\ Len(chat.value) = 1 + k) => state["clue_index"] = 3

\* C5 (amended): start_round reveals clue 1, so of the give_hint calls in a
\* row on the round it started, calls 1 and 2 return clues 2 and 3 and every
\* later call returns the "no more clues" message; clue_index is 3 after
\* call 2 and is not changed by the later calls.
C5_HintsAfterStart ==
    \A k \in 0..(MaxChat - 1) :
        HintsInARow(k) =>
            /\ k = 0 => /\ IsClue(chat.value[1].content.clue, 1)
                        /\ Len(chat.value) = 1 => state["clue_index"] = 1
            /\ k \in 1..2 => IsClue(chat.value[1 + k].content, 1 + k)
            /\ k >= 3 => chat.value[1 + k].content.text = "No more clues available"
            /\ (k >= 1 /\ Len(chat.value) = 1 + k) => state["clue_index"] = Min(1 + k, 3)

\* Four give_hint calls in a row on a fresh round.
C5_Witness ==
    /\ ActiveRound
    /\ Len(chat.value) = 5
    /\ HintsInARow(4)
    /\ chat.value[4].content.text = "No more clues available"
    /\ chat.value[5].content.text = "No more clues available"
    /\ state["clue_index"] = 3

-----------------------------------------------------------------------------
(* C6 *)

\* C6: a give_hint, submit_guess or give_up on a round never lowers
\* clue_index, changes it only by +1 and only in a give_hint that returns
\* the clue of the new number, and never takes it above 3.
C6_ClueIndexSteps ==
    [][(HasRound /\ (give_hint \/ SubmitGuess \/ give_up)) =>
          /\ state'["clue_index"] <= 3
          /\ \/ state'["clue_index"] = state["clue_index"]
             \/ /\ state'["clue_index"] = state["clue_index"] + 1
                /\ give_hint
                /\ IsClue(LastMsg(chat').content, state'["clue_index"])]_vars

\* The third clue revealed by a hint that followed a wrong guess.
C6_Witness ==
    /\ ActiveRound
    /\ state["clue_index"] = 3
    /\ Len(chat.value) = 5
    /\ chat.value[4].content.text = "Not quite"
    /\ IsClue(chat.value[5].content, 3)

-----------------------------------------------------------------------------
(* C7 *)

\* The score of the session; 0 before the first round.
Score(st) == Get(st, "score", 0)

\* C7: no step of a session lowers score, and a step that changes it is a
\* submit_guess on an Active round with a selection matching the answer,
\* which ends the round and adds at most 3.
C7_ScoreSteps ==
    [][/\ Score(state') >= Score(state)
       /\ Score(state') # Score(state) =>
             /\ ActiveRound
             /\ state'["round_over"]
             /\ Score(state') - Score(state) <= 3
             /\ \A key \in RoundFields : state'[key] = state[key]
             /\ \E selected \in Selections :
                   /\ SameIgnoringCase(selected, state["answer"])
                   /\ submit_guess(selected)]_vars

\* Two rounds won in one session.
C7_Witness ==
    /\ ResolvedRound
    /\ state["score"] = 4
    /\ state["streak"] = 2
    /\ LastMsg(chat).content.text = "Correct"

-----------------------------------------------------------------------------
(* C8, C9, C10: the options of a round *)

\* The positions of the options that match the answer ignoring case.
MatchingOptions(st) ==
    {i \in 1..Len(st["options"]) : SameIgnoringCase(st["options"][i], st["answer"])}

\* The distinct answer values of a sheet: stringified, trimmed, non-empty.
DistinctAnswers(category) ==
    {safe_str(DECKS[category][i][ANSWER_FIELD[category]]) :
        i \in {j \in 1..Len(DECKS[category]) :
                 ~IsNa(DECKS[category][j][ANSWER_FIELD[category]])}} \ {<<>>}

\* The distinct answer values that do not match the answer ignoring case.
NonMatchingAnswers(st) ==
    {a \in DistinctAnswers(st["category"]) : ~SameIgnoringCase(a, st["answer"])}

\* C8: the options of a round hold exactly one entry that matches the
\* answer ignoring case, and that entry is the answer string itself.
C8_OneMatch ==
    HasRound =>
        /\ Cardinality(MatchingOptions(state)) = 1
        /\ \A i \in MatchingOptions(state) : state["options"][i] = state["answer"]

\* A round with four options on a sheet that also holds the answer in
\* another letter case.
C8_Witness ==
    /\ HasRound
    /\ Len(state["options"]) = 4
    /\ \E a \in DistinctAnswers(state["category"]) :
          a # state["answer"] /\ SameIgnoringCase(a, state["answer"])

\* C9: the options of a round are min(4, 1 + number of distinct answer
\* values of the sheet that do not match the answer ignoring case) many.
C9_Length ==
    HasRound =>
        Len(state["options"]) = Min(4, 1 + Cardinality(NonMatchingAnswers(state)))

\* C10: no string occurs twice in the options of a round.
C10_Distinct ==
    HasRound =>
        \A i, j \in 1..Len(state["options"]) :
            i # j => state["options"][i] # state["options"][j]

-----------------------------------------------------------------------------
(* C11 *)

\* The streak of the session; 0 before the first round.
Streak(st) == Get(st, "streak", 0)

\* C11: a start_round, whatever the state before it (none, an Active round
\* or a Resolved round), leaves an Active round with round_over false and
\* clue_index 1, and with the score and the streak of the state before it,
\* 0 where that state has none.
C11_StartRound ==
    [][(HasRound' /\ start_round(state'["category"])) =>
          /\ state'["round_over"] = FALSE
          /\ state'["clue_index"] = 1
          /\ state'["score"] = Score(state)
          /\ state'["streak"] = Streak(state)]_vars

\* A round just started in a session that holds a point and a streak.
C11_Witness ==
    /\ ActiveRound
    /\ Len(chat.value) = 1
    /\ state["clue_index"] = 1
    /\ state["score"] = 1
    /\ state["streak"] = 1

-----------------------------------------------------------------------------
(* C12 *)

\* C12: the answer of every started round is a non-empty string after
\* trimming, also on a sheet whose answer column holds missing and blank
\* cells next to names.
C12_NonEmptyAnswer ==
    HasRound => Strip(state["answer"]) # <<>>

-----------------------------------------------------------------------------
(* C13 *)

\* The selection is unset or empty.
EmptySelection(selected) == selected = None \/ selected = <<>>

\* The two wordings of the "start a round first" guidance.
StartFirstTexts ==
    {"Pick a category and click New Round first",
     "Pick a category and click Start / New Round first"}

\* C13: without a round, give_hint, submit_guess and give_up answer with the
\* "start a round first" guidance, and on an Active round a submit_guess
\* with an empty or unset selection answers with the choose-an-option
\* prompt; each of these calls goes through and leaves the state, so score,
\* streak, clue_index and round_over, as it was.
C13_MalformedInput ==
    /\ [](Len(chat.value) + 2 <= MaxChat =>
            /\ ENABLED give_hint
            /\ ENABLED give_up
            /\ \A selected \in Selections : ENABLED submit_guess(selected))
    /\ [][/\ (~HasRound /\ (give_hint \/ SubmitGuess \/ give_up)) =>
                /\ state' = state
                /\ Len(chat'.value) = Len(chat.value) + 1
                /\ LastMsg(chat').role = "assistant"
                /\ LastMsg(chat').content.text \in StartFirstTexts
          /\ \A selected \in Selections :
                (ActiveRound /\ EmptySelection(selected) /\ submit_guess(selected)) =>
                    /\ state' = state
                    /\ AppendsOnly(as_msg("assistant",
                                          [text |-> "Choose one of the options first"]))]_vars

\* An empty selection submitted on the second round of a session: the
\* streak of the first round is still there.
C13_Witness ==
    /\ ActiveRound
    /\ state["streak"] = 1
    /\ Len(chat.value) = 2
    /\ LastMsg(chat).content.text = "Choose one of the options first"

-----------------------------------------------------------------------------
(* C14 *)

\* C14: the image widget is visible exactly when a round exists and is
\* over; a new round hides it, and hints, wrong guesses, empty selections
\* and rejected calls do not show it.
C14_ImageVisibility ==
    image.visible <=> ResolvedRound

\* The image of a second round shown after that round was given up: it was
\* shown for the first round and hidden again by start_round.
C14_Witness ==
    /\ ResolvedRound
    /\ image.visible
    /\ state["score"] > 0
    /\ Len(chat.value) = 2
    /\ LastMsg(chat).content.text = "All good - the answer was"

-----------------------------------------------------------------------------
(* C15 *)

\* The value of the row at a column is missing or empty.
MissingValue(row, col) ==
    \/ col \notin DOMAIN row
    \/ IsNa(row[col])
    \/ Strip(row[col]) = <<>>

\* The clue texts shown in the chat, first clue included.
ShownClues ==
    {chat.value[i].content : i \in {j \in 1..Len(chat.value) :
                                       chat.value[j].content.text = "Clue"}}
    \cup {chat.value[i].content.clue : i \in {j \in 1..Len(chat.value) :
                                       chat.value[j].content.text = "Here's your first clue"}}

\* C15: in a clue text, a field whose value in the row is missing or empty
\* shows the placeholder of that field, never an empty string.
C15_Placeholders ==
    \A clue \in ShownClues :
        clue.text = "Clue" =>
            LET fields == ClueFields(clue.category, clue.number)
            IN \A i \in 1..Len(fields) :
                  /\ clue.values[i] # <<>>
                  /\ MissingValue(state["row"], fields[i][1]) => clue.values[i] = fields[i][2]

-----------------------------------------------------------------------------
(* C16 *)

\* C16: build_composite_clue returns the fixed sentinel for a category
\* that is none of the four or a clue number outside 1..3, returns a clue
\* labelled with the requested number for the four categories and the
\* numbers 1..3, and leaves the state, clue_index included, as it was.
C16_ClueOrSentinel ==
    [][\A clue_number \in ClueNumbers :
          build_clue(clue_number) =>
              /\ state' = state
              /\ IF state["category"] \in {"Dogs", "Cats", "Horses", "Dinosaurs"}
                    /\ clue_number \in 1..3
                 THEN /\ LastMsg(chat').content.text = "Clue"
                      /\ LastMsg(chat').content.number = clue_number
                 ELSE LastMsg(chat').content.text = "Clue information unavailable"]_vars

\* The sentinel returned for a clue number out of range on one of the four
\* categories.
C16_Witness ==
    /\ HasRound
    /\ state["category"] = "Horses"
    /\ state["clue_index"] = 2
    /\ Len(chat.value) = 1
    /\ chat.value[1].content.text = "Clue information unavailable"

-----------------------------------------------------------------------------
(* C17 *)

\* C17: streak counts the correct guesses since the last wrong guess or
\* give-up: it starts at 0, a correct guess adds 1, a wrong guess and a
\* give-up on an Active round set it to 0, and no other step (a new round,
\* a hint, an empty selection, a rejected call) changes it.
C17_StreakSteps ==
    /\ [](~HasRound => Streak(state) = 0)
    /\ [][/\ \A selected \in Selections :
                (ActiveRound /\ ~EmptySelection(selected) /\ submit_guess(selected)) =>
                    IF SameIgnoringCase(selected, state["answer"])
                    THEN Streak(state') = Streak(state) + 1
                    ELSE Streak(state') = 0
          /\ (ActiveRound /\ give_up) => Streak(state') = 0
          /\ Streak(state') # Streak(state) =>
                /\ ActiveRound
                /\ \/ give_up
                   \/ \E selected \in Selections :
                         ~EmptySelection(selected) /\ submit_guess(selected)]_vars

\* A hint taken on the second round of a session: the streak of the first
\* round is still there.
C17_Witness ==
    /\ ActiveRound
    /\ state["streak"] = 1
    /\ Len(chat.value) = 2
    /\ IsClue(LastMsg(chat).content, 2)

-----------------------------------------------------------------------------
(* C18 *)

\* C18: give_hint, submit_guess and give_up leave the category, the row,
\* the answer and the options of the round as start_round set them.
C18_RoundFieldsKept ==
    [][(HasRound /\ (give_hint \/ SubmitGuess \/ give_up)) =>
          \A key \in RoundFields : state'[key] = state[key]]_vars

\* A round on which a hint, a wrong guess and a give-up were called.
C18_Witness ==
    /\ ResolvedRound
    /\ Len(chat.value) = 5
    /\ IsClue(chat.value[2].content, 2)
    /\ chat.value[4].content.text = "Not quite"
    /\ chat.value[5].content.text = "All good - the answer was"
    /\ Len(state["options"]) = 3

-----------------------------------------------------------------------------
(* C19 *)

\* The points the "Correct" messages of the chat report.
ReportedPoints ==
    {chat.value[i].content.pts : i \in {j \in 1..Len(chat.value) :
                                          chat.value[j].content.text = "Correct"}}

\* C19: whenever a round exists, clue_index is 1, 2 or 3, so the floor
\* max(1, clue_index) is clue_index itself, and the points of a correct
\* guess are 4 - clue_index.
C19_ClueIndexRange ==
    HasRound =>
        /\ state["clue_index"] \in 1..3
        /\ Max(1, state["clue_index"]) = state["clue_index"]
        /\ points_for_clues_used(Max(1, state["clue_index"])) = 4 - state["clue_index"]
        /\ \A pts \in ReportedPoints : pts = 4 - state["clue_index"]

\* A round won on its first clue: 3 points.
C19_Witness ==
    /\ ResolvedRound
    /\ state["clue_index"] = 1
    /\ Len(chat.value) = 3
    /\ ReportedPoints = {3}

-----------------------------------------------------------------------------
(* C20 *)

\* C20: in every state of a session 0 <= streak <= score.
C20_StreakAtMostScore ==
    /\ 0 <= Streak(state)
    /\ Streak(state) <= Score(state)

\* Two rounds won with one point each: streak and score are both 2.
C20_Witness ==
    /\ HasRound
    /\ state["streak"] = 2
    /\ state["score"] = 2

-----------------------------------------------------------------------------
(* C21 *)

\* C21: the score and the streak the score display shows are the score and
\* the streak of the session state, in the initial state (the hard-coded
\* text, the empty state) and after every handler call, the calls of
\* give_hint, which is not wired to the display, included.
C21_DisplayInSync ==
    /\ score_md.score = Score(state)
    /\ score_md.streak = Streak(state)

\* Two hints taken on the second round of a session, after a first round
\* won on its third clue: the display still shows the point and the streak
\* of 1 that start_round wrote.
C21_Witness ==
    /\ ActiveRound
    /\ Len(chat.value) = 3
    /\ IsClue(chat.value[2].content, 2)
    /\ IsClue(chat.value[3].content, 3)
    /\ score_md.format = "hud"
    /\ score_md.score = 1
    /\ score_md.streak = 1

====
